---- MODULE Spec2Model ----
(***************************************************************************)
(* Model of awsarch2tikz (src/lib.rs): the translation of the first <path> *)
(* of an SVG document into one TikZ \draw statement.                       *)
(*                                                                         *)
(* Coordinates are f32 values.  The model uses the f32 values that are     *)
(* multiples of 1/16: an integer q stands for the float q/16.  These are   *)
(* exactly representable and have at most four decimal digits, so `{:.4}`  *)
(* prints them without rounding.                                           *)
(*                                                                         *)
(* The two external collaborators (svg::read, Data::parse) are modelled by *)
(* what they hand to the code: a finite stream of events, and for a `d`    *)
(* attribute either a syntax error or a sequence of commands.              *)
(***************************************************************************)
EXTENDS Integers, Sequences, FiniteSets, TLC

VARIABLES
    pc,            \* position inside parse_svg
    stream,        \* the events svg::read yields for the input document
    idx,           \* number of events the for loop has taken from the stream
    attributes,    \* result.attributes
    path_sections, \* result.path_sections
    cmds,          \* commands of the parsed Data the map has consumed so far
    collected,     \* the Vec that collect() is building
    outcome,       \* how the call ended: Ok, Err (returned) or Panic (unwound)
    out            \* texts the caller obtained by formatting the returned value

vars == <<pc, stream, idx, attributes, path_sections, cmds, collected, outcome, out>>

-----------------------------------------------------------------------------
(* Bounds of the model *)

MaxEvents == 2
MaxCmds == 2
MaxRenders == 2
MaxAttrs == 2
MaxSections == 2

-----------------------------------------------------------------------------
(* Text formatting *)

Precision == 4

Digit(d) ==
    CASE d = 0 -> "0" [] d = 1 -> "1" [] d = 2 -> "2" [] d = 3 -> "3"
      [] d = 4 -> "4" [] d = 5 -> "5" [] d = 6 -> "6" [] d = 7 -> "7"
      [] d = 8 -> "8" [] d = 9 -> "9"

RECURSIVE NatToString(_)
NatToString(n) ==
    IF n < 10 THEN Digit(n) ELSE NatToString(n \div 10) \o Digit(n % 10)

RECURSIVE Pow10(_)
Pow10(k) == IF k = 0 THEN 1 ELSE 10 * Pow10(k - 1)

\* The k decimal digits of n, zero padded on the left.
RECURSIVE PadDigits(_, _)
PadDigits(n, k) ==
    IF k = 0 THEN "" ELSE PadDigits(n \div 10, k - 1) \o Digit(n % 10)

\* `{:.4}` applied to the f32 q/16: sign, integer part, '.', four decimals.
\* q/16 = i + r/16 and r/16 = r*625/10000, so the decimals are exact.
FormatFloat(q) ==
    LET a == IF q < 0 THEN 0 - q ELSE q
        scaled == (a % 16) * (Pow10(Precision) \div 16)
    IN  (IF q < 0 THEN "-" ELSE "")
            \o NatToString(a \div 16) \o "." \o PadDigits(scaled, Precision)

\* A Point is the pair <<self.0, self.1>>.
Point(a, b) == <<a, b>>

PointDisplay(p) == "(" \o FormatFloat(p[1]) \o ", " \o FormatFloat(p[2]) \o ")"

-----------------------------------------------------------------------------
(* Attribute *)

Setting(s) == [tag |-> "Setting", s |-> s]
Param(k, v) == [tag |-> "Param", k |-> k, v |-> v]

AttributeDisplay(a) ==
    IF a.tag = "Setting" THEN a.s ELSE a.k \o "=" \o a.v

\* [T]::join(sep) on a Vec<String>
RECURSIVE Join(_, _)
Join(strs, sep) ==
    IF Len(strs) = 0 THEN ""
    ELSE IF Len(strs) = 1 THEN strs[1]
    ELSE strs[1] \o sep \o Join(Tail(strs), sep)

\* attributes_to_tikz joining with a comma and a space.
attributes_to_tikz_Spaced(attrs) ==
    Join([i \in 1..Len(attrs) |-> AttributeDisplay(attrs[i])], ", ")

attributes_to_tikz(attrs) ==
    Join([i \in 1..Len(attrs) |-> AttributeDisplay(attrs[i])], ",")

-----------------------------------------------------------------------------
(* PathSection *)

Move(p) == [tag |-> "Move", p |-> p]
Line(p) == [tag |-> "Line", p |-> p]
Curve(c1, c2, p) == [tag |-> "Curve", c1 |-> c1, c2 |-> c2, p |-> p]
Cycle == [tag |-> "Cycle"]

PathSectionDisplay(s) ==
    CASE s.tag = "Move" -> PointDisplay(s.p)
      [] s.tag = "Line" -> "--" \o PointDisplay(s.p)
      [] s.tag = "Curve" ->
            ".. controls " \o PointDisplay(s.c1) \o " and " \o PointDisplay(s.c2)
                \o " .. " \o PointDisplay(s.p)
      [] s.tag = "Cycle" -> "--cycle"

\* TikzDraw's fmt writing one space, not two, around an empty path.
TikzDrawDisplay_Trim(attrs, sections) ==
    LET a == attributes_to_tikz(attrs)
        path == Join([i \in 1..Len(sections) |-> PathSectionDisplay(sections[i])], " ")
    IN  IF path = "" THEN "\\draw[" \o a \o "] ;"
        ELSE "\\draw[" \o a \o "] " \o path \o " ;"

TikzDrawDisplay(attrs, sections) ==
    LET a == attributes_to_tikz(attrs)
        path == Join([i \in 1..Len(sections) |-> PathSectionDisplay(sections[i])], " ")
    IN  "\\draw[" \o a \o "] " \o path \o " ;"

-----------------------------------------------------------------------------
(* Commands of the svg crate and the command adapter *)

Cmd(kind, pos, params) == [kind |-> kind, pos |-> pos, params |-> params]
Close == [kind |-> "Close"]

\* The result of one call: a section, or the panic that unwinds the call.
Returned(s) == [ok |-> TRUE, section |-> s]
Panicked(msg, cmd) == [ok |-> FALSE, msg |-> msg, cmd |-> cmd]

\* params[i] with Rust's bounds check (0-based index i).
InBounds(params, i) == i + 1 <= Len(params)

\* from_svg with the control points of a curve taken in the order
\* (second control, first control, terminal).
from_svg_swapped(cmd) ==
    CASE cmd.kind = "Close" -> Returned(Cycle)
      [] cmd.kind = "Move" /\ cmd.pos = "Absolute" ->
            IF InBounds(cmd.params, 1)
            THEN Returned(Move(Point(cmd.params[1], cmd.params[2])))
            ELSE Panicked("index out of bounds", cmd)
      [] cmd.kind = "Line" /\ cmd.pos = "Absolute" ->
            IF InBounds(cmd.params, 1)
            THEN Returned(Line(Point(cmd.params[1], cmd.params[2])))
            ELSE Panicked("index out of bounds", cmd)
      [] cmd.kind = "CubicCurve" /\ cmd.pos = "Absolute" ->
            IF InBounds(cmd.params, 5)
            THEN Returned(Curve(Point(cmd.params[3], cmd.params[4]),
                                Point(cmd.params[1], cmd.params[2]),
                                Point(cmd.params[5], cmd.params[6])))
            ELSE Panicked("index out of bounds", cmd)
      [] OTHER -> Panicked("not yet supported", cmd)

\* from_svg reading the point of a move or line, and the points of a curve,
\* from the end of the parameter list.
from_svg_trailing(cmd) ==
    CASE cmd.kind = "Close" -> Returned(Cycle)
      [] cmd.kind = "Move" /\ cmd.pos = "Absolute" ->
            IF InBounds(cmd.params, 1)
            THEN Returned(Move(Point(cmd.params[Len(cmd.params) - 1],
                                     cmd.params[Len(cmd.params)])))
            ELSE Panicked("index out of bounds", cmd)
      [] cmd.kind = "Line" /\ cmd.pos = "Absolute" ->
            IF InBounds(cmd.params, 1)
            THEN Returned(Line(Point(cmd.params[Len(cmd.params) - 1],
                                     cmd.params[Len(cmd.params)])))
            ELSE Panicked("index out of bounds", cmd)
      [] cmd.kind = "CubicCurve" /\ cmd.pos = "Absolute" ->
            IF InBounds(cmd.params, 5)
            THEN LET n == Len(cmd.params)
                 IN  Returned(Curve(Point(cmd.params[n - 5], cmd.params[n - 4]),
                                    Point(cmd.params[n - 3], cmd.params[n - 2]),
                                    Point(cmd.params[n - 1], cmd.params[n])))
            ELSE Panicked("index out of bounds", cmd)
      [] OTHER -> Panicked("not yet supported", cmd)

from_svg(cmd) ==
    CASE cmd.kind = "Close" -> Returned(Cycle)
      [] cmd.kind = "Move" /\ cmd.pos = "Absolute" ->
            IF InBounds(cmd.params, 1)
            THEN Returned(Move(Point(cmd.params[1], cmd.params[2])))
            ELSE Panicked("index out of bounds", cmd)
      [] cmd.kind = "Line" /\ cmd.pos = "Absolute" ->
            IF InBounds(cmd.params, 1)
            THEN Returned(Line(Point(cmd.params[1], cmd.params[2])))
            ELSE Panicked("index out of bounds", cmd)
      [] cmd.kind = "CubicCurve" /\ cmd.pos = "Absolute" ->
            IF InBounds(cmd.params, 5)
            THEN Returned(Curve(Point(cmd.params[1], cmd.params[2]),
                                Point(cmd.params[3], cmd.params[4]),
                                Point(cmd.params[5], cmd.params[6])))
            ELSE Panicked("index out of bounds", cmd)
      [] OTHER -> Panicked("not yet supported", cmd)

-----------------------------------------------------------------------------
(* Inputs *)

\* Events of svg::parser::Event that the loop can meet.  A <path> tag comes
\* with the state of its `d` attribute: absent, not valid path data, or valid.
PathTag(d) == [kind |-> "Tag", name |-> "path", d |-> d]
OtherTag == [kind |-> "Tag", name |-> "g"]
ErrorEvent == [kind |-> "Error"]

EventSet ==
    {PathTag("absent"), PathTag("malformed"), PathTag("valid"), OtherTag, ErrorEvent}

RECURSIVE SeqsUpTo(_, _)
SeqsUpTo(S, n) ==
    IF n = 0 THEN {<<>>}
    ELSE LET shorter == SeqsUpTo(S, n - 1)
         IN  shorter \cup {Append(q, x) : q \in {r \in shorter : Len(r) = n - 1}, x \in S}

Streams == SeqsUpTo(EventSet, MaxEvents)

\* Commands Data::parse can yield.  Parameter lists are in sixteenths:
\* <<0, 0>> is 0,0 and <<160, 160>> is 10,10.
MoveParams == {<<>>, <<16>>, <<0, 0>>, <<-20, 9>>, <<16, 32, 48, 64>>}
LineParams == {<<>>, <<16>>, <<160, 160>>, <<-20, 9>>, <<16, 32, 48>>}
CurveParams ==
    {<<16, 32>>, <<16, 32, 48, 64, 80>>, <<16, 32, 48, 64, 80, 96>>,
     <<16, 32, 48, 64, 80, 96, 112, 128>>}

OtherKinds ==
    {"HorizontalLine", "VerticalLine", "QuadraticCurve", "SmoothQuadraticCurve",
     "SmoothCubicCurve", "EllipticalArc"}

CmdSet ==
    {Close}
      \cup {Cmd("Move", "Absolute", ps) : ps \in MoveParams}
      \cup {Cmd("Line", "Absolute", ps) : ps \in LineParams}
      \cup {Cmd("CubicCurve", "Absolute", ps) : ps \in CurveParams}
      \cup {Cmd("Move", "Relative", <<0, 0>>), Cmd("Line", "Relative", <<160, 160>>),
            Cmd("CubicCurve", "Relative", <<16, 32, 48, 64, 80, 96>>)}
      \cup {Cmd(k, pos, <<16, 32, 48, 64, 80, 96, 112>>) :
                k \in OtherKinds, pos \in {"Absolute", "Relative"}}

-----------------------------------------------------------------------------
(* parse_svg *)

Running == [kind |-> "None"]
Ok == [kind |-> "Ok"]
Err(from) == [kind |-> "Err", from |-> from]
Panic(msg) == [kind |-> "Panic", msg |-> msg]
PanicCmd(msg, cmd) == [kind |-> "Panic", msg |-> msg, cmd |-> cmd]

FixedAttributes ==
    <<Setting("fill"), Setting("even odd rule"), Param("line width", "1")>>

Init ==
    /\ pc = "read"
    /\ stream \in Streams
    /\ idx = 0
    /\ attributes = <<>>
    /\ path_sections = <<>>
    /\ cmds = <<>>
    /\ collected = <<>>
    /\ outcome = Running
    /\ out = <<>>

\* read_to_string(input)? and the three pushes that follow it.
ReadInput ==
    /\ pc = "read"
    /\ \E readOk \in BOOLEAN :
        IF readOk
        THEN /\ attributes' = attributes \o FixedAttributes
             /\ pc' = "open"
             /\ UNCHANGED outcome
        ELSE /\ pc' = "done"
             /\ outcome' = Err("read_to_string")
             /\ UNCHANGED attributes
    /\ UNCHANGED <<stream, idx, path_sections, cmds, collected, out>>

\* svg::read(&input)?
OpenScanner ==
    /\ pc = "open"
    /\ \E openOk \in BOOLEAN :
        IF openOk
        THEN pc' = "scanning" /\ UNCHANGED outcome
        ELSE pc' = "done" /\ outcome' = Err("svg::read")
    /\ UNCHANGED <<stream, idx, attributes, path_sections, cmds, collected, out>>

IsPathTag(e) == e.kind = "Tag" /\ e.name = "path"

\* The arm Event::Tag(tag::Path, _, attrs): the two unwraps, after which the
\* map over the parsed commands starts.
HandlePathTag ==
    /\ pc = "scanning"
    /\ idx < Len(stream)
    /\ IsPathTag(stream[idx + 1])
    /\ idx' = idx + 1
    /\ LET e == stream[idx + 1]
       IN  CASE e.d = "absent" -> pc' = "done" /\ outcome' = Panic("unwrap on None")
             [] e.d = "malformed" -> pc' = "done" /\ outcome' = Panic("unwrap on Err")
             [] OTHER -> pc' = "mapping" /\ UNCHANGED outcome
    /\ UNCHANGED <<stream, attributes, path_sections, cmds, collected, out>>

\* The arm `_ => {}`.
IgnoreEvent ==
    /\ pc = "scanning"
    /\ idx < Len(stream)
    /\ ~IsPathTag(stream[idx + 1])
    /\ idx' = idx + 1
    /\ UNCHANGED <<pc, stream, attributes, path_sections, cmds, collected, outcome, out>>

\* The map step putting each new section in front of the earlier ones.
MapCommand_Prepend ==
    /\ pc = "mapping"
    /\ Len(cmds) < MaxCmds
    /\ \E c \in CmdSet :
        LET r == from_svg(c)
        IN  /\ cmds' = Append(cmds, c)
            /\ IF r.ok
               THEN /\ collected' = <<r.section>> \o collected
                    /\ UNCHANGED <<pc, outcome>>
               ELSE /\ pc' = "done"
                    /\ outcome' = PanicCmd(r.msg, r.cmd)
                    /\ UNCHANGED collected
    /\ UNCHANGED <<stream, idx, attributes, path_sections, out>>

\* One step of data.iter().map(PathSection::from_svg): the next command of
\* the parsed data goes through from_svg and its section is collected.
MapCommand ==
    /\ pc = "mapping"
    /\ Len(cmds) < MaxCmds
    /\ \E c \in CmdSet :
        LET r == from_svg(c)
        IN  /\ cmds' = Append(cmds, c)
            /\ IF r.ok
               THEN /\ collected' = Append(collected, r.section)
                    /\ UNCHANGED <<pc, outcome>>
               ELSE /\ pc' = "done"
                    /\ outcome' = PanicCmd(r.msg, r.cmd)
                    /\ UNCHANGED collected
    /\ UNCHANGED <<stream, idx, attributes, path_sections, out>>

\* The path arm without its `break`: the loop goes on to the next event.
AssignAndBreak_NoBreak ==
    /\ pc = "mapping"
    /\ path_sections' = collected
    /\ pc' = "scanning"
    /\ cmds' = <<>>
    /\ collected' = <<>>
    /\ UNCHANGED <<stream, idx, attributes, outcome, out>>

\* The path arm building a fresh statement around the collected sections.
AssignAndBreak_Rebuild ==
    /\ pc = "mapping"
    /\ path_sections' = collected
    /\ attributes' = <<>>
    /\ pc' = "done"
    /\ outcome' = Ok
    /\ UNCHANGED <<stream, idx, cmds, collected, out>>

\* The iterator is exhausted: the collected Vec is assigned, `break` leaves
\* the loop and Ok(result) is returned.
AssignAndBreak ==
    /\ pc = "mapping"
    /\ path_sections' = collected
    /\ pc' = "done"
    /\ outcome' = Ok
    /\ UNCHANGED <<stream, idx, attributes, cmds, collected, out>>

\* The stream is exhausted: Ok(result).
EndOfStream ==
    /\ pc = "scanning"
    /\ idx = Len(stream)
    /\ pc' = "done"
    /\ outcome' = Ok
    /\ UNCHANGED <<stream, idx, attributes, path_sections, cmds, collected, out>>

\* The caller formats the returned statement (println!("{}", tikz)).
Render ==
    /\ pc = "done"
    /\ outcome = Ok
    /\ Len(out) < MaxRenders
    /\ out' = Append(out, TikzDrawDisplay(attributes, path_sections))
    /\ UNCHANGED <<pc, stream, idx, attributes, path_sections, cmds, collected, outcome>>

Next ==
    \/ ReadInput
    \/ OpenScanner
    \/ HandlePathTag
    \/ IgnoreEvent
    \/ MapCommand
    \/ AssignAndBreak
    \/ EndOfStream
    \/ Render

Spec == Init /\ [][Next]_vars

-----------------------------------------------------------------------------
(* Rendering of arbitrary statements: the Display impls as pure functions *)

AttrSet ==
    {Setting("fill"), Setting("even odd rule"), Param("line width", "1"),
     Param("draw", "red")}

SectionSet ==
    {Move(Point(0, 0)), Line(Point(160, 160)), Line(Point(-20, 9)),
     Curve(Point(16, 32), Point(48, 64), Point(80, 96)), Cycle}

InitRender ==
    /\ pc = "done"
    /\ stream = <<>>
    /\ idx = 0
    /\ attributes \in SeqsUpTo(AttrSet, MaxAttrs)
    /\ path_sections \in SeqsUpTo(SectionSet, MaxSections)
    /\ cmds = <<>>
    /\ collected = <<>>
    /\ outcome = Ok
    /\ out = <<>>

NextRender == Render

SpecRender == InitRender /\ [][NextRender]_vars

-----------------------------------------------------------------------------
(* Vocabulary of the properties *)

\* Position of the first <path> event of the stream, 0 when there is none.
FirstPath ==
    IF \E j \in 1..Len(stream) : IsPathTag(stream[j])
    THEN CHOOSE j \in 1..Len(stream) :
            /\ IsPathTag(stream[j])
            /\ \A k \in 1..(j - 1) : ~IsPathTag(stream[k])
    ELSE 0

Supported(c) ==
    \/ c.kind = "Close"
    \/ c.kind \in {"Move", "Line", "CubicCurve"} /\ c.pos = "Absolute"

\* Number of parameters the mapping table gives a supported command.
Arity(c) ==
    CASE c.kind = "Close" -> 0
      [] c.kind \in {"Move", "Line"} -> 2
      [] c.kind = "CubicCurve" -> 6

\* The texts of a sequence with one separator between neighbours, built from
\* the right end.
RECURSIVE Separated(_, _)
Separated(texts, sep) ==
    IF texts = <<>> THEN ""
    ELSE IF Len(texts) = 1 THEN texts[1]
    ELSE Separated(SubSeq(texts, 1, Len(texts) - 1), sep) \o sep \o texts[Len(texts)]

\* The section the mapping table builds from the leading numbers of a move,
\* line or cubic-curve command.
LeadingSection(c) ==
    IF c.kind = "CubicCurve"
    THEN [tag |-> "Curve", c1 |-> <<c.params[1], c.params[2]>>,
          c2 |-> <<c.params[3], c.params[4]>>, p |-> <<c.params[5], c.params[6]>>]
    ELSE [tag |-> c.kind, p |-> <<c.params[1], c.params[2]>>]

PointText(x, y) == "(" \o FormatFloat(x) \o ", " \o FormatFloat(y) \o ")"

Succeeded == pc = "done" /\ outcome = Ok
SucceededWithPath == Succeeded /\ idx > 0 /\ IsPathTag(stream[idx])

-----------------------------------------------------------------------------
(* Properties of the command adapter *)

\* C1: from_svg follows the mapping table.  A command of the parsed data that
\* is an absolute move or line with exactly [x,y], an absolute cubic curve with
\* exactly [x1,y1,x2,y2,x,y], or a close, yields exactly one section, at the
\* command's own position: Move(Point(x,y)), Line(Point(x,y)),
\* Curve(Point(x1,y1), Point(x2,y2), Point(x,y)) or Cycle.  The curve's text
\* names the points in that order: first control, second control, terminal.
C1_MappingTable ==
    /\ Len(collected) <= Len(cmds)
    /\ \A i \in 1..Len(cmds) :
        LET c == cmds[i]
        IN  (Supported(c) /\ (c.kind = "Close" \/ Len(c.params) = Arity(c))) =>
              /\ i <= Len(collected)
              /\ LET s == collected[i]
                 IN  CASE c.kind = "Move" ->
                            s = [tag |-> "Move", p |-> <<c.params[1], c.params[2]>>]
                       [] c.kind = "Line" ->
                            s = [tag |-> "Line", p |-> <<c.params[1], c.params[2]>>]
                       [] c.kind = "CubicCurve" ->
                            /\ s = [tag |-> "Curve",
                                    c1 |-> <<c.params[1], c.params[2]>>,
                                    c2 |-> <<c.params[3], c.params[4]>>,
                                    p |-> <<c.params[5], c.params[6]>>]
                            /\ PathSectionDisplay(s) =
                                  ".. controls " \o PointText(c.params[1], c.params[2])
                                    \o " and " \o PointText(c.params[3], c.params[4])
                                    \o " .. " \o PointText(c.params[5], c.params[6])
                            /\ (c.params = <<16, 32, 48, 64, 80, 96>> =>
                                  PathSectionDisplay(s) =
                                    ".. controls (1.0000, 2.0000) and (3.0000, 4.0000) .. (5.0000, 6.0000)")
                       [] c.kind = "Close" -> s = [tag |-> "Cycle"]

\* A returned statement holding the section of a six-parameter absolute curve
\* next to the section of another command.
C1_Witness ==
    /\ SucceededWithPath
    /\ Len(path_sections) = 2
    /\ \E i \in 1..Len(cmds) :
        /\ cmds[i].kind = "CubicCurve"
        /\ Len(cmds[i].params) = 6
        /\ path_sections[i].tag = "Curve"
    /\ \E i \in 1..Len(cmds) : cmds[i].kind \in {"Move", "Line", "Close"}

\* C10: from_svg does not check the length of the parameter list.  With more
\* numbers than the table names, a supported command still yields its one
\* section, built from the first 2 (move, line) or 6 (cubic curve) numbers,
\* and the other numbers are in neither the section nor its text.  With fewer,
\* the call panics on the index, no section is produced for the command and
\* no statement is returned.
C10_ParamLength ==
    \A i \in 1..Len(cmds) :
        LET c == cmds[i]
        IN  (Supported(c) /\ c.kind # "Close") =>
              /\ Len(c.params) > Arity(c) =>
                    /\ i <= Len(collected)
                    /\ collected[i] = LeadingSection(c)
                    /\ (c.kind = "Move" /\ c.params = <<16, 32, 48, 64>> =>
                          PathSectionDisplay(collected[i]) = "(1.0000, 2.0000)")
                    /\ (c.kind = "Line" /\ c.params = <<16, 32, 48>> =>
                          PathSectionDisplay(collected[i]) = "--(1.0000, 2.0000)")
                    /\ (c.kind = "CubicCurve" =>
                          PathSectionDisplay(collected[i]) =
                            ".. controls (1.0000, 2.0000) and (3.0000, 4.0000) .. (5.0000, 6.0000)")
              /\ Len(c.params) < Arity(c) =>
                    /\ i = Len(cmds)
                    /\ Len(collected) = i - 1
                    /\ pc = "done"
                    /\ outcome.kind = "Panic"
                    /\ outcome.msg = "index out of bounds"
                    /\ path_sections = <<>>
                    /\ out = <<>>

\* A statement returned and rendered for a move with four numbers followed
\* by a curve with eight.
C10_Witness ==
    /\ SucceededWithPath
    /\ Len(cmds) = 2
    /\ cmds[1].kind = "Move" /\ Len(cmds[1].params) = 4
    /\ cmds[2].kind = "CubicCurve" /\ Len(cmds[2].params) = 8
    /\ Len(path_sections) = 2
    /\ out # <<>>

-----------------------------------------------------------------------------
(* Properties of the orchestrator *)

FixedPrefix == "\\draw[fill,even odd rule,line width=1]"

\* C3: when the stream holds path-bearing nodes, only the first is read.  The
\* loop never takes an event after it, commands are mapped for it alone, a
\* successful result holds its sections, and with valid path data in the first
\* node no unwrap on a later node's data can fail the call.
C3_FirstPathOnly ==
    FirstPath > 0 =>
        /\ idx <= FirstPath
        /\ (pc = "mapping" \/ cmds # <<>>) =>
                idx = FirstPath /\ stream[FirstPath].d = "valid"
        /\ Succeeded =>
                /\ idx = FirstPath
                /\ Len(path_sections) = Len(cmds)
                /\ \A i \in 1..Len(cmds) : path_sections[i] = collected[i]
        /\ (pc = "done" /\ outcome.kind = "Panic" /\ stream[FirstPath].d = "valid") =>
                outcome.msg \in {"not yet supported", "index out of bounds"}

\* A successful call on a stream whose second <path> has no `d` attribute.
C3_Witness ==
    /\ Succeeded
    /\ Len(stream) = 2
    /\ stream[1] = PathTag("valid")
    /\ stream[2] = PathTag("absent")
    /\ idx = 1
    /\ Len(path_sections) = 2

\* C4: when the stream ends while the loop is still scanning, the call returns
\* Ok with an empty section sequence, and the text of the returned statement
\* is `\draw[fill,even odd rule,line width=1]  ;`.
C4_EmptyStatement ==
    /\ [][(pc = "scanning" /\ idx = Len(stream)) =>
            /\ pc' = "done"
            /\ outcome' = Ok
            /\ path_sections' = <<>>
            /\ TikzDrawDisplay(attributes', path_sections') = FixedPrefix \o "  ;"]_vars
    /\ [](Succeeded /\ FirstPath = 0 =>
            \A k \in 1..Len(out) : out[k] = "\\draw[fill,even odd rule,line width=1]  ;")

\* The statement of a stream of two events without a <path>, rendered.
C4_Witness ==
    /\ Succeeded
    /\ Len(stream) = 2
    /\ FirstPath = 0
    /\ idx = 2
    /\ path_sections = <<>>
    /\ out # <<>>

\* C7: on success with a path-bearing node, the section sequence has one
\* element per command of the path data, the i-th being from_svg of the i-th
\* command, and the rendered section list is the sections' texts in that order
\* with single spaces between them.
C7_OrderPreserved ==
    SucceededWithPath =>
        /\ Len(path_sections) = Len(cmds)
        /\ \A i \in 1..Len(cmds) :
            from_svg(cmds[i]).ok /\ path_sections[i] = from_svg(cmds[i]).section
        /\ \A k \in 1..Len(out) :
            out[k] = FixedPrefix \o " "
                \o Separated([i \in 1..Len(cmds) |->
                                PathSectionDisplay(from_svg(cmds[i]).section)], " ")
                \o " ;"

\* A rendered statement of two equal consecutive commands.
C7_Witness ==
    /\ SucceededWithPath
    /\ Len(cmds) = 2
    /\ cmds[1] = cmds[2]
    /\ Len(path_sections) = 2
    /\ path_sections[1] = path_sections[2]
    /\ out # <<>>

\* C9: once pushed, the attribute sequence is [Setting(fill),
\* Setting(even odd rule), Param(line width, 1)] and no step of the scan
\* changes it; every returned statement carries exactly that sequence.
C9_FixedAttributes ==
    /\ []((pc # "read" /\ outcome # Err("read_to_string")) =>
            attributes = <<[tag |-> "Setting", s |-> "fill"],
                           [tag |-> "Setting", s |-> "even odd rule"],
                           [tag |-> "Param", k |-> "line width", v |-> "1"]>>)
    /\ [][pc # "read" => attributes' = attributes]_vars

\* A statement returned for a path-bearing node with two commands.
C9_Witness ==
    /\ SucceededWithPath
    /\ Len(path_sections) = 2
    /\ Len(attributes) = 3

-----------------------------------------------------------------------------
(* Properties of the rendering *)

AttributeText(a) == IF a.tag = "Setting" THEN a.s ELSE a.k \o "=" \o a.v

\* C8: for every attribute sequence A and section sequence S the text is
\* `\draw[` + the texts of A separated by `,` + `] ` + the texts of S separated
\* by one space + ` ;`.  An empty S leaves an empty body, an empty A leaves
\* empty brackets.  Rendering twice gives the same text and leaves the
\* statement as it was.
C8_RenderingContract ==
    /\ [](\A k \in 1..Len(out) :
            /\ out[k] =
                  "\\draw["
                    \o Separated([i \in 1..Len(attributes) |->
                                    AttributeText(attributes[i])], ",")
                    \o "] "
                    \o Separated([i \in 1..Len(path_sections) |->
                                    PathSectionDisplay(path_sections[i])], " ")
                    \o " ;"
            /\ (attributes = <<>> /\ path_sections = <<>> => out[k] = "\\draw[]  ;")
            /\ (attributes = <<[tag |-> "Param", k |-> "draw", v |-> "red"],
                               [tag |-> "Setting", s |-> "fill"]>>
                    /\ path_sections = <<>> => out[k] = "\\draw[draw=red,fill]  ;")
            /\ out[k] = out[1])
    /\ [][pc = "done" => attributes' = attributes /\ path_sections' = path_sections]_vars

\* A statement of two attributes, of both kinds, and two sections, rendered
\* twice.
C8_Witness ==
    /\ Len(out) = 2
    /\ Len(attributes) = 2
    /\ attributes[1].tag = "Param"
    /\ attributes[2].tag = "Setting"
    /\ Len(path_sections) = 2
    /\ path_sections[1] # path_sections[2]

-----------------------------------------------------------------------------
(* Statements of the failure design that the code does not meet *)

\* C2: when the path data of the first path-bearing node holds a relative
\* command or a command kind outside {move, line, cubic-curve, close}, the
\* call returns an UnsupportedCommand failure value that carries the command,
\* and produces no statement.
C2_UnsupportedReturned ==
    (pc = "done" /\ cmds # <<>> /\ ~Supported(cmds[Len(cmds)])) =>
        /\ outcome.kind = "Err"
        /\ outcome.from = "UnsupportedCommand"
        /\ outcome.cmd = cmds[Len(cmds)]
        /\ path_sections = <<>>
        /\ out = <<>>

\* C5: a first path-bearing node without `d` makes the call return a
\* MissingPathData failure value, one whose `d` is not valid path data a
\* PathDataSyntaxError failure value; no statement is produced.
C5_PathDataFailuresReturned ==
    (pc = "done" /\ idx > 0 /\ IsPathTag(stream[idx])) =>
        /\ stream[idx].d = "absent" =>
                /\ outcome.kind = "Err"
                /\ outcome.from = "MissingPathData"
                /\ path_sections = <<>>
        /\ stream[idx].d = "malformed" =>
                /\ outcome.kind = "Err"
                /\ outcome.from = "PathDataSyntaxError"
                /\ path_sections = <<>>

\* C6: a scanner that cannot tokenize the input, at its creation or by an
\* error event before any path-bearing node, aborts the call with a
\* DocumentParseFailure: the loop does not go past the error event and the
\* call does not return Ok.
C6_ScannerErrorAborts ==
    /\ outcome = Err("svg::read") =>
            pc = "done" /\ idx = 0 /\ path_sections = <<>> /\ out = <<>>
    /\ \A j \in 1..Len(stream) :
        (stream[j] = ErrorEvent /\ (FirstPath = 0 \/ j < FirstPath)) =>
            /\ idx <= j
            /\ (pc = "done" /\ idx = j) => outcome.kind = "Err"

====
